---- MODULE Spec2Model ----
(***************************************************************************)
(* A model of src/nets/gat2.py: the GraphAttention2 layer and the GAT2     *)
(* stack of layers.                                                        *)
(*                                                                         *)
(* Tensors are sequences (1-indexed): an [N, D] tensor is a sequence of N  *)
(* rows of D integers, an [N, H, D] tensor a sequence of N sequences of H  *)
(* sequences of D integers.  Floating point numbers are integers; the      *)
(* softmax scores are exact fractions [num, den].  Python indices are      *)
(* 0-based, the model's are 1-based: layers[l] of the code is layers[l+1]  *)
(* here, and layers[-1] is layers[Len(layers)].                            *)
(***************************************************************************)
EXTENDS Integers, Sequences, FiniteSets, TLC

\* ------------------------------------------------------------------ bounds
MaxLayers == 2      \* num_layers ranges over 1..MaxLayers
NumNodes == 3       \* N, the number of nodes of each graph
ExpBits == 3        \* exp(d) is 2^(ExpBits+d), 0 below -ExpBits (underflow)
TanhMax == 3        \* tanh saturates at -TanhMax and TanhMax

VARIABLES
    cfg,      \* the arguments GAT2.__init__ was called with
    mg,       \* GAT2.g
    layers,   \* GAT2.layers: the GraphAttention2 modules, in order
    graphs,   \* the graph objects: topology and attribute tables
    pc,       \* where the caller is: "idle", or inside GAT2.forward at
              \* "loop", "last" or "output"
    fwd_l,    \* GAT2.forward: the loop variable l
    fwd_h,    \* GAT2.forward: the local h
    mask,     \* the dropout mask drawn for the running forward
    last,     \* history: the last layer call that returned
    order,    \* history: the layers the running or last forward has called
    result    \* history: how the last GAT2.forward ended

vars == <<cfg, mg, layers, graphs, pc, fwd_l, fwd_h, mask, last, order, result>>

\* ----------------------------------------------------------------- helpers
Nodes == 1..NumNodes
GraphIds == {"g1", "g2"}

Max(a, b) == IF a >= b THEN a ELSE b
Min(a, b) == IF a <= b THEN a ELSE b

RECURSIVE Pow2(_)
Pow2(n) == IF n <= 0 THEN 1 ELSE 2 * Pow2(n - 1)

RECURSIVE SumSet(_, _)
\* The sum of f[x] over the finite set S.
SumSet(f, S) ==
    IF S = {} THEN 0
    ELSE LET x == CHOOSE y \in S : TRUE IN f[x] + SumSet(f, S \ {x})

RECURSIVE MaxSet(_)
MaxSet(S) ==
    LET x == CHOOSE y \in S : TRUE
    IN IF S = {x} THEN x ELSE Max(x, MaxSet(S \ {x}))

Dot(u, v) == SumSet([i \in 1..Len(u) |-> u[i] * v[i]], 1..Len(u))

Width(x) == Len(x[1])

EmptyTable == [k \in {} |-> 0]

\* The two graph objects.  In g1 every node but node 2 sends one edge to
\* node 2; g2 is a chain 1 -> 2 -> ... -> N with one more edge N -> 2.
Topology(gid) ==
    IF gid = "g1"
    THEN {<<i, 2>> : i \in Nodes \ {2}}
    ELSE {<<i, i + 1>> : i \in 1..(NumNodes - 1)} \cup {<<NumNodes, 2>>}

NewGraph(gid) ==
    [nodes |-> Nodes, edges |-> Topology(gid),
     ndata |-> EmptyTable, edata |-> EmptyTable]

InEdges(g, v) == {e \in g.edges : e[2] = v}

\* ------------------------------------------------- tensor engine primitives
\* x @ W for x of shape [N, I] and W of shape [I, J] (a bias-free nn.Linear).
MatMul(x, W) ==
    [n \in 1..Len(x) |->
        [j \in 1..Len(W[1]) |->
            SumSet([i \in 1..Len(W) |-> x[n][i] * W[i][j]], 1..Len(W))]]

\* nn.LeakyReLU(alpha) on one number; alpha is the fraction alpha.num/alpha.den
\* and the product is rounded towards zero.
LeakyReLU(v, alpha) ==
    IF v >= 0 THEN v ELSE 0 - (((0 - v) * alpha.num) \div alpha.den)

\* y.reshape((N, H, -1)) of a [N, H*D] tensor.
Reshape(y, H) ==
    LET D == Width(y) \div H
    IN [n \in 1..Len(y) |->
           [h \in 1..H |-> [d \in 1..D |-> y[n][(h - 1) * D + d]]]]

\* t.flatten(1) of a [N, H, D] tensor.
Flatten(t) ==
    LET H == Len(t[1])
        D == Len(t[1][1])
    IN [n \in 1..Len(t) |->
           [j \in 1..(H * D) |-> t[n][((j - 1) \div D) + 1][((j - 1) % D) + 1]]]

\* t.mean(1) of a [N, H, D] tensor.
HeadMean(t) ==
    LET H == Len(t[1])
        D == Len(t[1][1])
    IN [n \in 1..Len(t) |->
           [d \in 1..D |-> SumSet([h \in 1..H |-> t[n][h][d]], 1..H) \div H]]

\* torch.tanh, elementwise on a [N, D] tensor: odd, monotone and bounded.
Tanh(x) ==
    [n \in 1..Len(x) |->
        [j \in 1..Len(x[n]) |-> Max(0 - TanhMax, Min(TanhMax, x[n][j]))]]

\* The activation handed to GAT2.__init__ (a rectifier), elementwise.
Activation(x) ==
    [n \in 1..Len(x) |-> [j \in 1..Len(x[n]) |-> Max(0, x[n][j])]]

\* exp(d) for d <= 0, as the softmax uses it after subtracting the maximum.
Exp(d) == IF 0 - d > ExpBits THEN 0 ELSE Pow2(ExpBits + d)

\* nn.Dropout(p) in training mode on one number: zero, or scaled by 1/(1-p);
\* p is in percent.
DropoutValue(p, v, keep) == IF keep THEN (v * 100) \div (100 - p) ELSE 0

\* Whether element k survives under dropout mask m.
Keep(m, k) == (m + k) % 2 = 0

\* Parameter values as the initialiser left them (or as the optimizer did).
Wt(seed, tag, i, j) == ((seed + tag + i + 2 * j) % 3) - 1

Weights(seed, tag, I, J) ==
    [i \in 1..I |-> [j \in 1..J |-> Wt(seed, tag, i, j)]]

\* ---------------------------------------------------------- GraphAttention2
DropModule(p) ==
    IF p # 0 THEN [kind |-> "dropout", p |-> p] ELSE [kind |-> "identity", p |-> 0]

\* The residual projection: unset without residual, None when in_dim = out_dim.
ResFc(seed, in_dim, out_dim, num_heads, residual) ==
    IF residual
    THEN IF in_dim # out_dim
         THEN [kind |-> "linear",
               w |-> Weights(seed, 4, in_dim, num_heads * out_dim)]
         ELSE [kind |-> "none", w |-> <<>>]
    ELSE [kind |-> "unset", w |-> <<>>]

\* GraphAttention2.__init__
GraphAttention2(g, in_dim, out_dim, num_heads, feat_drop, attn_drop, alpha, name, residual, seed) ==
    [g |-> g, in_dim |-> in_dim, out_dim |-> out_dim,
     num_heads |-> num_heads, name |-> name,
     fc1 |-> Weights(seed, 0, in_dim, in_dim),
     fc2 |-> Weights(seed, 1, in_dim, num_heads * out_dim),
     feat_drop |-> DropModule(feat_drop),
     attn_drop |-> DropModule(attn_drop),
     attn_l |-> Weights(seed, 2, num_heads, out_dim),
     attn_r |-> Weights(seed, 3, num_heads, out_dim),
     alpha |-> alpha,
     residual |-> residual,
     res_fc |-> ResFc(seed, in_dim, out_dim, num_heads, residual)]

\* self.feat_drop(inputs)
FeatDrop(layer, inputs, m) ==
    IF layer.feat_drop.kind = "identity" THEN inputs
    ELSE [n \in 1..Len(inputs) |->
             [j \in 1..Len(inputs[n]) |->
                 DropoutValue(layer.feat_drop.p, inputs[n][j], Keep(m, n + j))]]

\* fc1, leaky_relu1, fc2 and the reshape to [N, H, D'].
Project(layer, h) ==
    LET ft1 == MatMul(h, layer.fc1)
        h2 == [n \in 1..Len(ft1) |->
                  [j \in 1..Len(ft1[n]) |-> LeakyReLU(ft1[n][j], layer.alpha)]]
    IN Reshape(MatMul(h2, layer.fc2), layer.num_heads)

\* torch.bmm(head_ft, attn).transpose(0, 1): one number per node and head.
AttnScalar(ft2, attn) ==
    [n \in 1..Len(ft2) |-> [h \in 1..Len(ft2[n]) |-> Dot(ft2[n][h], attn[h])]]

\* g.ndata.update({'ft': ft2, 'a1': a1, 'a2': a2})
NdataUpdate(g, ft2, a1, a2) ==
    [g EXCEPT !.ndata = ("ft" :> ft2 @@ "a1" :> a1 @@ "a2" :> a2) @@ @]

\* GraphAttention2.edge_attention on one edge.
edge_attention(layer, g, e) ==
    [h \in 1..layer.num_heads |->
        LeakyReLU(g.ndata["a1"][e[1]][h] + g.ndata["a2"][e[2]][h], layer.alpha)]

\* A faulty variant of ApplyEdges: an 'a' of the right shape that is already
\* on the edges is taken as computed and kept.
ApplyEdgesCached(layer, g) ==
    IF /\ "a" \in DOMAIN g.edata
       /\ DOMAIN g.edata["a"] = g.edges
       /\ \A e \in g.edges : Len(g.edata["a"][e]) = layer.num_heads
    THEN g
    ELSE [g EXCEPT !.edata =
             ("a" :> [e \in g.edges |-> edge_attention(layer, g, e)]) @@ @]

\* A faulty variant of ApplyEdges: a self-loop is added to every node before
\* the attention values are computed.
ApplyEdgesSelfLoops(layer, g) ==
    LET gl == [g EXCEPT !.edges = @ \cup {<<v, v>> : v \in g.nodes}]
    IN [gl EXCEPT !.edata =
           ("a" :> [e \in gl.edges |-> edge_attention(layer, gl, e)]) @@ @]

\* g.apply_edges(self.edge_attention): 'a' is written on every edge.
ApplyEdges(layer, g) ==
    [g EXCEPT !.edata =
        ("a" :> [e \in g.edges |-> edge_attention(layer, g, e)]) @@ @]

\* A faulty variant of EdgeSoftmaxApply: one softmax over all the edges of
\* the graph instead of one per destination node.
EdgeSoftmaxGlobal(g, a, H) ==
    [e \in g.edges |->
        [h \in 1..H |->
            LET mx == MaxSet({a[f][h] : f \in g.edges})
            IN [num |-> Exp(a[e][h] - mx),
                den |-> SumSet([f \in g.edges |-> Exp(a[f][h] - mx)],
                               g.edges)]]]

\* EdgeSoftmax.apply(g, g.edata['a']): per destination node and head,
\* exp(x - max) over the sum of exp(x - max) of the incoming edges.
EdgeSoftmaxApply(g, a, H) ==
    [e \in g.edges |->
        [h \in 1..H |->
            LET into == InEdges(g, e[2])
                mx == MaxSet({a[f][h] : f \in into})
            IN [num |-> Exp(a[e][h] - mx),
                den |-> SumSet([f \in into |-> Exp(a[f][h] - mx)], into)]]]

\* self.attn_drop(scores)
AttnDrop(layer, scores, m) ==
    IF layer.attn_drop.kind = "identity" THEN scores
    ELSE [e \in DOMAIN scores |->
             [h \in 1..Len(scores[e]) |->
                 [num |-> DropoutValue(layer.attn_drop.p, scores[e][h].num,
                                       Keep(m, e[1] + e[2] + h)),
                  den |-> scores[e][h].den]]]

\* GraphAttention2.edge_softmax: 'a_drop' is written on every edge.
edge_softmax(layer, g, m) ==
    LET scores == EdgeSoftmaxApply(g, g.edata["a"], layer.num_heads)
    IN [g EXCEPT !.edata = ("a_drop" :> AttnDrop(layer, scores, m)) @@ @]

\* A faulty variant of UpdateAll: the reduction skips a node without incoming
\* edges, whose 'ft' stays as it was.
UpdateAllKeepIsolated(g) ==
    LET ft == g.ndata["ft"]
        w == g.edata["a_drop"]
        msg(v, h, d) ==
            LET into == InEdges(g, v)
                den == w[CHOOSE f \in into : TRUE][h].den
            IN IF into = {} THEN ft[v][h][d]
               ELSE SumSet([f \in into |-> ft[f[1]][h][d] * w[f][h].num], into)
                        \div den
    IN [g EXCEPT !.ndata =
           ("ft" :> [v \in 1..Len(ft) |->
                        [h \in 1..Len(ft[v]) |->
                            [d \in 1..Len(ft[v][h]) |-> msg(v, h, d)]]]) @@ @]

\* g.update_all(fn.src_mul_edge('ft', 'a_drop', 'ft'), fn.sum('ft', 'ft')):
\* every node's 'ft' becomes the sum of its incoming messages, which is zero
\* for a node without incoming edges.
UpdateAll(g) ==
    LET ft == g.ndata["ft"]
        w == g.edata["a_drop"]
        msg(v, h, d) ==
            LET into == InEdges(g, v)
                den == w[CHOOSE f \in into : TRUE][h].den
            IN IF into = {} THEN 0
               ELSE SumSet([f \in into |-> ft[f[1]][h][d] * w[f][h].num], into)
                        \div den
    IN [g EXCEPT !.ndata =
           ("ft" :> [v \in 1..Len(ft) |->
                        [h \in 1..Len(ft[v]) |->
                            [d \in 1..Len(ft[v][h]) |-> msg(v, h, d)]]]) @@ @]

\* A faulty variant of Residual: the sum keeps the head dimension of resval
\* instead of broadcasting it.
ResidualNoBroadcast(layer, h, ret) ==
    IF layer.residual
    THEN LET resval ==
                 IF layer.res_fc.kind # "none"
                 THEN Reshape(MatMul(h, layer.res_fc.w), layer.num_heads)
                 ELSE [n \in 1..Len(h) |-> <<h[n]>>]
         IN [n \in 1..Len(ret) |->
                [k \in 1..Len(resval[n]) |->
                    [d \in 1..Len(ret[n][k]) |->
                        resval[n][k][d] + ret[n][k][d]]]]
    ELSE ret

\* A faulty variant of Residual: nothing is added when res_fc is None.
ResidualSkipBroadcast(layer, h, ret) ==
    IF layer.residual /\ layer.res_fc.kind # "none"
    THEN LET resval == Reshape(MatMul(h, layer.res_fc.w), layer.num_heads)
         IN [n \in 1..Len(ret) |->
                [k \in 1..Len(ret[n]) |->
                    [d \in 1..Len(ret[n][k]) |->
                        resval[n][k][d] + ret[n][k][d]]]]
    ELSE ret

\* Step 4 of forward: the residual term added to the aggregated output.
Residual(layer, h, ret) ==
    IF layer.residual
    THEN LET resval ==
                 IF layer.res_fc.kind # "none"
                 THEN Reshape(MatMul(h, layer.res_fc.w), layer.num_heads)
                 ELSE [n \in 1..Len(h) |-> <<h[n]>>]
         IN [n \in 1..Len(ret) |->
                [k \in 1..Len(ret[n]) |->
                    [d \in 1..Len(ret[n][k]) |->
                        resval[n][IF Len(resval[n]) = 1 THEN 1 ELSE k][d]
                            + ret[n][k][d]]]]
    ELSE ret

\* GraphAttention2.forward on graph g (the object self.g names) with dropout
\* mask m.  A feature width other than in_dim makes fc1 raise before any
\* table is written.
GA2Forward(layer, g, inputs, m) ==
    IF Width(inputs) # layer.in_dim
    THEN [ok |-> FALSE, g |-> g, h |-> inputs, scores |-> EmptyTable,
          ret |-> <<>>]
    ELSE LET h == FeatDrop(layer, inputs, m)
             ft2 == Project(layer, h)
             a1 == AttnScalar(ft2, layer.attn_l)
             a2 == AttnScalar(ft2, layer.attn_r)
             gn == NdataUpdate(g, ft2, a1, a2)
             ge == ApplyEdges(layer, gn)
             gs == edge_softmax(layer, ge, m)
             gu == UpdateAll(gs)
         IN [ok |-> TRUE, g |-> gu, h |-> h,
             scores |-> EdgeSoftmaxApply(ge, ge.edata["a"], layer.num_heads),
             ret |-> Residual(layer, h, gu.ndata["ft"])]

\* --------------------------------------------------------------------- GAT2
\* A faulty variant of InputLayer: the residual flag is handed through.
InputLayerResidual(c) ==
    GraphAttention2(c.g, c.in_dim, c.num_hidden, c.heads[1], c.drop[1],
                    c.drop[2], c.alpha, "0", c.residual, c.seed)

\* The input projection: layers[0], without residual.
InputLayer(c) ==
    GraphAttention2(c.g, c.in_dim, c.num_hidden, c.heads[1], c.drop[1],
                    c.drop[2], c.alpha, "0", FALSE, c.seed)

\* A faulty variant of HiddenLayer: in_dim from the layer's own head count.
HiddenLayerOwnHeads(c, l) ==
    GraphAttention2(c.g, c.num_hidden * c.heads[l + 1], c.num_hidden,
                    c.heads[l + 1], c.drop[1], c.drop[2], c.alpha,
                    ToString(l), c.residual, c.seed + l)

\* The hidden layer the loop builds for l (Python's l, 1 <= l < num_layers).
HiddenLayer(c, l) ==
    GraphAttention2(c.g, c.num_hidden * c.heads[l], c.num_hidden,
                    c.heads[l + 1], c.drop[1], c.drop[2], c.alpha,
                    ToString(l), c.residual, c.seed + l)

\* The output projection: in_dim from heads[-2], heads[-1] heads.
OutputLayer(c) ==
    GraphAttention2(c.g, c.num_hidden * c.heads[Len(c.heads) - 1],
                    c.num_classes, c.heads[Len(c.heads)], c.drop[1],
                    c.drop[2], c.alpha, "X", c.residual,
                    c.seed + c.num_layers)

\* GAT2.__init__: the module list.
Construct(c) ==
    <<InputLayer(c)>>
        \o [l \in 1..(c.num_layers - 1) |-> HiddenLayer(c, l)]
        \o <<OutputLayer(c)>>

\* What the loop body makes of a layer's output: flatten, activation.
AfterHidden(ret) == Activation(Flatten(ret))

\* A faulty variant of BeforeOutput: the activation is applied as in the loop.
BeforeOutputActivated(ret) == Tanh(Activation(Flatten(ret)))

\* What is made of the output of layers[num_layers-1]: flatten, tanh.
BeforeOutput(ret) == Tanh(Flatten(ret))

\* logits = (the output of layers[-1]).mean(1)
Logits(ret) == HeadMean(ret)

\* GAT2.set_g: the loop over range(self.num_layers).
SetGLayers(ls, num_layers, g) ==
    [l \in 1..Len(ls) |->
        IF l <= num_layers THEN [ls[l] EXCEPT !.g = g] ELSE ls[l]]

\* ------------------------------------------------------------ state machine
Seeds == {0}
HeadCounts == {1, 2}     \* the values of an entry of heads
Dims == {1, 2}           \* the values of in_dim, num_hidden, num_classes
\* <<feat_drop, attn_drop>> in percent: none, either one.
DropProbs == {<<0, 0>>, <<50, 0>>, <<0, 50>>}
Alphas == {[num |-> 1, den |-> 2]}
MaskSeeds == {0, 1}

\* The node features handed to GAT2.forward: shape [N, in_dim].
Inputs(in_dim) ==
    [n \in Nodes |-> [j \in 1..in_dim |-> ((n + 2 * j) % 4) - 1]]

\* The constructor arguments with which __init__ completes: heads needs an
\* entry for every l < num_layers and for the indices -2 and -1.
Configs ==
    {c \in [g : {"g1"}, num_layers : 1..MaxLayers, in_dim : Dims,
            num_hidden : Dims, num_classes : Dims,
            heads : UNION {[1..n -> HeadCounts] : n \in 2..(MaxLayers + 1)},
            drop : DropProbs, alpha : Alphas,
            residual : BOOLEAN, seed : Seeds] :
        Len(c.heads) \in {c.num_layers, c.num_layers + 1}}

NoCall ==
    [l |-> 0, g |-> "", stale |-> FALSE, input |-> <<>>, h |-> <<>>,
     scores |-> EmptyTable, a_drop |-> EmptyTable, agg |-> <<>>, ret |-> <<>>]

NoResult == [status |-> "none", logits |-> <<>>]

Init ==
    /\ cfg \in Configs
    /\ mg = cfg.g
    /\ layers = Construct(cfg)
    /\ graphs = [gid \in GraphIds |-> NewGraph(gid)]
    /\ pc = "idle"
    /\ fwd_l = 0
    /\ fwd_h = <<>>
    /\ mask = 0
    /\ last = NoCall
    /\ order = <<>>
    /\ result = NoResult

\* layers[i] (1-based i) called on the current h, against the graph object
\* that layer references.
CallLayer(i) == GA2Forward(layers[i], graphs[layers[i].g], fwd_h, mask + i)

\* What a completed layer call leaves behind: the graph's tables, and the
\* history of the call.
Returned(i, r) ==
    /\ graphs' = [graphs EXCEPT ![layers[i].g] = r.g]
    /\ last' = [l |-> i, g |-> layers[i].g,
                stale |-> graphs[layers[i].g].ndata # EmptyTable,
                input |-> fwd_h, h |-> r.h, scores |-> r.scores,
                a_drop |-> r.g.edata["a_drop"], agg |-> r.g.ndata["ft"],
                ret |-> r.ret]
    /\ order' = Append(order, i)

\* The exception of a layer call ends GAT2.forward.
Raised ==
    /\ pc' = "idle"
    /\ result' = [status |-> "error", logits |-> <<>>]
    /\ fwd_l' = 0
    /\ fwd_h' = <<>>
    /\ mask' = 0
    /\ UNCHANGED <<graphs, last, order>>

\* The position once the loop variable is `next` (Python's l).
LoopPc(next) == IF next < cfg.num_layers - 1 THEN "loop" ELSE "last"

\* model(inputs): h = inputs; the dropout modules draw mask m (without
\* dropout there is nothing to draw).
ForwardBegin(m) ==
    /\ pc = "idle"
    /\ cfg.drop = <<0, 0>> => m = 0
    /\ fwd_h' = Inputs(cfg.in_dim)
    /\ mask' = m
    /\ fwd_l' = 0
    /\ pc' = LoopPc(0)
    /\ last' = NoCall
    /\ order' = <<>>
    /\ result' = NoResult
    /\ UNCHANGED <<cfg, mg, layers, graphs>>

\* One iteration of the loop of GAT2.forward: layers[l], flatten, activation.
HiddenStep ==
    /\ pc = "loop"
    /\ \E r \in {CallLayer(fwd_l + 1)} :
          IF r.ok
          THEN /\ Returned(fwd_l + 1, r)
               /\ fwd_h' = AfterHidden(r.ret)
               /\ fwd_l' = fwd_l + 1
               /\ pc' = LoopPc(fwd_l + 1)
               /\ UNCHANGED <<mask, result>>
          ELSE Raised
    /\ UNCHANGED <<cfg, mg, layers>>

\* layers[num_layers-1], flatten, tanh.
LastHidden ==
    /\ pc = "last"
    /\ \E r \in {CallLayer(cfg.num_layers)} :
          IF r.ok
          THEN /\ Returned(cfg.num_layers, r)
               /\ fwd_h' = BeforeOutput(r.ret)
               /\ pc' = "output"
               /\ UNCHANGED <<fwd_l, mask, result>>
          ELSE Raised
    /\ UNCHANGED <<cfg, mg, layers>>

\* layers[-1], the mean over the heads, and the return.
OutputStep ==
    /\ pc = "output"
    /\ \E r \in {CallLayer(Len(layers))} :
          IF r.ok
          THEN /\ Returned(Len(layers), r)
               /\ result' = [status |-> "ok", logits |-> Logits(r.ret)]
               /\ pc' = "idle"
               /\ fwd_l' = 0
               /\ fwd_h' = <<>>
               /\ mask' = 0
          ELSE Raised
    /\ UNCHANGED <<cfg, mg, layers>>

\* model.set_g(g)
SetG(g) ==
    /\ pc = "idle"
    /\ mg' = g
    /\ layers' = SetGLayers(layers, cfg.num_layers, g)
    /\ UNCHANGED <<cfg, graphs, pc, fwd_l, fwd_h, mask, last, order, result>>

Next ==
    \/ \E m \in MaskSeeds : ForwardBegin(m)
    \/ HiddenStep
    \/ LastHidden
    \/ OutputStep
    \/ \E g \in GraphIds : SetG(g)

Spec == Init /\ [][Next]_vars

\* ------------------------------------------------------------------- claims
Called == last.l # 0
LastLayer == layers[last.l]
Isolated(gid) == {v \in Nodes : InEdges(NewGraph(gid), v) = {}}

IsShape2(t, N, D) ==
    /\ DOMAIN t = 1..N
    /\ \A n \in 1..N : DOMAIN t[n] = 1..D

IsShape3(t, N, H, D) ==
    /\ DOMAIN t = 1..N
    /\ \A n \in 1..N :
          /\ DOMAIN t[n] = 1..H
          /\ \A k \in 1..H : DOMAIN t[n][k] = 1..D

\* The residual term of node n, head k, component d for the feature-dropped
\* input hd: nothing without residual, the input itself when
\* in_dim = out_dim, the projection otherwise.
ResTerm(layer, hd, n, k, d) ==
    IF ~layer.residual THEN 0
    ELSE IF layer.in_dim = layer.out_dim THEN hd[n][d]
    ELSE Reshape(MatMul(hd, layer.res_fc.w), layer.num_heads)[n][k][d]

\* C1 (as claimed): after set_g the model and every layer in model.layers
\* reference the same graph, the one set_g was given.
C1_AllLayersRebound ==
    \A i \in 1..Len(layers) : layers[i].g = mg

\* C2 (as claimed): a model constructed with num_layers = L holds exactly L
\* layers, layer 0 without residual and layer L-1 the output layer.
C2_ExactlyLLayers ==
    /\ Len(layers) = cfg.num_layers
    /\ ~layers[1].residual
    /\ layers[cfg.num_layers].out_dim = cfg.num_classes

\* C2 (amended): a model constructed with num_layers = L holds exactly L+1
\* layers: layer 0 with residual off, layers 1..L-1 hidden layers with the
\* configured residual flag, layer L the output layer with
\* out_dim = num_classes.
C2_LayerList ==
    LET L == cfg.num_layers
    IN /\ Len(layers) = L + 1
       /\ ~layers[1].residual
       /\ layers[1].in_dim = cfg.in_dim
       /\ layers[1].out_dim = cfg.num_hidden
       /\ \A i \in 2..L :
             /\ layers[i].residual = cfg.residual
             /\ layers[i].out_dim = cfg.num_hidden
             /\ layers[i].num_heads = cfg.heads[i]
       /\ layers[L + 1].residual = cfg.residual
       /\ layers[L + 1].out_dim = cfg.num_classes
       /\ layers[L + 1].num_heads = cfg.heads[Len(cfg.heads)]

C2_Witness ==
    /\ cfg.num_layers = 2
    /\ cfg.residual
    /\ Len(layers) = 3
    /\ layers[2].residual
    /\ layers[3].out_dim = cfg.num_classes
    /\ cfg.num_classes # cfg.num_hidden

\* C3: without dropout the output of a layer call is the output of the same
\* layer on the same input and a graph of the same topology whose attribute
\* tables are empty: what earlier calls left in the tables has no effect.
C3_TablesHaveNoEffect ==
    (Called /\ cfg.drop = <<0, 0>>) =>
        last.ret = GA2Forward(LastLayer, NewGraph(last.g), last.input, 0).ret

C3_Witness ==
    /\ Called
    /\ cfg.drop = <<0, 0>>
    /\ last.stale
    /\ Len(order) >= 2
    /\ result.status = "ok"
    /\ "a_drop" \in DOMAIN graphs["g2"].edata
    /\ \E n \in Nodes : \E k \in 1..LastLayer.num_heads :
          \E d \in 1..LastLayer.out_dim :
              /\ last.agg[n][k][d] # 0
              /\ last.ret[n][k][d] # 0

\* C4: the node set and the edge set of every graph, and every learnable
\* parameter of every layer, are what they were at construction, whatever
\* forward calls have run.
C4_TopologyAndParameters ==
    /\ \A gid \in GraphIds :
          /\ graphs[gid].nodes = Nodes
          /\ graphs[gid].edges = Topology(gid)
    /\ \A i \in 1..Len(layers) :
          LET made == Construct(cfg)[i]
          IN /\ layers[i].fc1 = made.fc1
             /\ layers[i].fc2 = made.fc2
             /\ layers[i].attn_l = made.attn_l
             /\ layers[i].attn_r = made.attn_r
             /\ layers[i].res_fc = made.res_fc

C4_Witness ==
    /\ result.status = "ok"
    /\ \A gid \in GraphIds :
          /\ DOMAIN graphs[gid].ndata = {"ft", "a1", "a2"}
          /\ DOMAIN graphs[gid].edata = {"a", "a_drop"}

\* C5: a layer call returns a tensor of shape [N, num_heads, out_dim], and a
\* forward of the model that returns, returns a tensor of shape
\* [N, num_classes].
C5_Shapes ==
    /\ Called =>
          IsShape3(last.ret, NumNodes, LastLayer.num_heads, LastLayer.out_dim)
    /\ result.status = "ok" =>
          IsShape2(result.logits, NumNodes, cfg.num_classes)

C5_Witness ==
    /\ result.status = "ok"
    /\ LastLayer.residual
    /\ LastLayer.res_fc.kind = "none"
    /\ LastLayer.num_heads = 2
    /\ LastLayer.out_dim = 2
    /\ IsShape3(last.ret, NumNodes, 2, 2)

C7_ResidualTerm ==
    Called =>
        \A n \in Nodes : \A k \in 1..LastLayer.num_heads :
            \A d \in 1..LastLayer.out_dim :
                last.ret[n][k][d] =
                    last.agg[n][k][d] + ResTerm(LastLayer, last.h, n, k, d)

C7_Witness ==
    /\ Called
    /\ LastLayer.residual
    /\ LastLayer.in_dim = LastLayer.out_dim
    /\ LastLayer.num_heads = 2
    /\ LastLayer.feat_drop.kind = "dropout"
    /\ last.h # last.input
    /\ \E n \in Nodes : \E d \in 1..LastLayer.out_dim :
          /\ last.h[n][d] # 0
          /\ last.agg[n][2][d] # 0

\* C8: for a node without incoming edges a layer call returns, for every
\* head, the zero vector without residual and the residual term with it;
\* the 'ft' the node was given before the aggregation is not in its output.
C8_IsolatedNode ==
    Called =>
        \A v \in Isolated(last.g) : \A k \in 1..LastLayer.num_heads :
            \A d \in 1..LastLayer.out_dim :
                last.ret[v][k][d] = ResTerm(LastLayer, last.h, v, k, d)

C8_Witness ==
    /\ Called
    /\ ~LastLayer.residual
    /\ \E v \in Isolated(last.g) : \E k \in 1..LastLayer.num_heads :
          \E d \in 1..LastLayer.out_dim :
              /\ Project(LastLayer, last.h)[v][k][d] # 0
              /\ last.ret[v][k][d] = 0

\* C9 (as claimed): the input of the final layer is tanh of the flattened and
\* already activated output of the layer before it.
C9_FinalInputActivated ==
    pc = "output" => fwd_h = Tanh(Activation(Flatten(last.ret)))

\* C9 (amended): forward calls every constructed layer once, in construction
\* order; the flattened output of each of layers 0..L-2 goes through the
\* activation; the input of the final layer is tanh of the flattened output
\* of the layer before it, to which the activation is not applied; only the
\* final layer's output is averaged over the heads.
C9_ForwardPipeline ==
    /\ \A i \in 1..Len(order) : order[i] = i
    /\ Len(order) <= Len(layers)
    /\ Called => last.l = Len(order)
    /\ (pc \in {"loop", "last"} /\ Called) =>
          /\ last.l = fwd_l
          /\ last.l <= cfg.num_layers - 1
          /\ fwd_h = Activation(Flatten(last.ret))
    /\ pc = "output" =>
          /\ last.l = cfg.num_layers
          /\ fwd_h = Tanh(Flatten(last.ret))
    /\ result.status = "ok" =>
          /\ Len(order) = Len(layers)
          /\ result.logits = HeadMean(last.ret)

C9_Witness ==
    /\ pc = "output"
    /\ cfg.num_layers = 2
    /\ order = <<1, 2>>
    /\ \E n \in Nodes : \E j \in 1..Width(fwd_h) :
          /\ Flatten(last.ret)[n][j] < 0
          /\ fwd_h[n][j] < 0

\* C10 (as claimed): with L >= 2 and a heads list of length L, forward never
\* ends in a shape error.
C10_NoShapeErrorWithLHeads ==
    (cfg.num_layers >= 2 /\ Len(cfg.heads) = cfg.num_layers) =>
        result.status # "error"

\* C10 (amended): with a heads list of length L+1, one entry per constructed
\* layer, the feature width fed to each layer is that layer's in_dim (the
\* input's for layer 0, num_heads*out_dim of the preceding layer for every
\* later layer, the output layer included), and forward never ends in a
\* shape error.
C10_WidthsMatch ==
    Len(cfg.heads) = cfg.num_layers + 1 =>
        /\ result.status # "error"
        /\ layers[1].in_dim = cfg.in_dim
        /\ \A i \in 1..(Len(layers) - 1) :
              layers[i + 1].in_dim = layers[i].num_heads * layers[i].out_dim
        /\ Called => Width(last.input) = LastLayer.in_dim
        /\ pc # "idle" => Width(fwd_h) = layers[Len(order) + 1].in_dim

C10_Witness ==
    /\ cfg.num_layers = 2
    /\ Len(cfg.heads) = 3
    /\ cfg.heads[1] # cfg.heads[2]
    /\ cfg.heads[2] # cfg.heads[3]
    /\ result.status = "ok"
    /\ last.l = 3
    /\ Width(last.input) = cfg.num_hidden * cfg.heads[2]

====
